---- MODULE Spec2Model ----
(***************************************************************************)
(* Model of the bobot persistence core:                                    *)
(*   - the cache-aside query engine (CachedQueryTrait::query),             *)
(*   - the redis list staging primitives (create_list, drain_list,         *)
(*     try_pipe, pipe),                                                    *)
(*   - the sticker-upload conversation (workflow) wizard,                  *)
(*   - the conversation engine under concurrent transition calls, and      *)
(*     the authoring of conversation templates.                            *)
(* Each subsystem has its own specification over its own variables; the    *)
(* variables of the other subsystems stay at their initial value.          *)
(***************************************************************************)
EXTENDS Integers, Sequences, FiniteSets, TLC

VARIABLES
    \* ---- cache-aside query engine ----
    qcache,     \* redis: key -> Option<T> (the cached representation)
    qdb,        \* durable store: key -> Option<T>
    qpc,        \* position of the running query(): idle, redis, sql, miss, done
    qkey,       \* the key argument of the running query
    qval,       \* the value sql_query returned (the local `val`)
    qret,       \* what query() returned
    qcalls,     \* history: the strategy callbacks invoked by the running query
    qcache0,    \* history: the cache as it was when query() was called
    qcrash,     \* history: the query run that stopped between load and populate
    \* ---- redis list staging, one call at a time ----
    lists,      \* redis: key -> the list stored there, head first (<<>>: no key)
    origin,     \* history: key -> the call that last wrote the list
    last,       \* history: the last call: its arguments, effect and result
    \* ---- redis list staging, concurrent clients of one server ----
    cpc,        \* creator -> idle, or sent: its create_list awaits the reply
    cpipe,      \* creator -> the pipeline it sent: what the server has left to run
    lastDone,   \* history: key -> the items of the last batch the server finished
    seen,       \* history: what the reader's last LRANGE returned, and when
    \* ---- the sticker-upload wizard ----
    conv,       \* dialog manager: chat/user pair -> its conversation instance
    wstr,       \* redis: key -> the string stored there
    wlist,      \* redis: key -> the list stored there, head first
    stickers,   \* store: stickers table, unique_id -> row
    tags,       \* store: tags table, the rows in insertion order
    wlast,      \* history: the last message handled and what handling it did
    wpairs,     \* the chat/user pairs that write to the bot
    wacc,       \* history: pair -> the tag messages accepted since its last
                \* sticker upload, and the staged tags that upload dropped
    wfail,      \* history: pair -> its /done whose insert failed, and the retry
    wstep,      \* the next message of the user who runs the wizard once
    wreplied,   \* history: the reply to the /upload of that run was sent
    \* ---- the conversation engine driven by concurrent tasks ----
    einst,      \* instance store: chat/user pair -> its conversation instance
    tpc,        \* task -> idle, or resolved: its transition found its edge
    tcall,      \* task -> the transition call it is in
    elast,      \* history: the last step of a transition call
    eloop,      \* history: pair -> self-loop transitions applied in a row
    \* ---- template authoring ----
    etpl,       \* template id -> the template constructed under it
    alast       \* history: the last authoring call and its result

qvars == <<qcache, qdb, qpc, qkey, qval, qret, qcalls, qcache0, qcrash>>

lvars == <<lists, origin, last>>

cvars == <<cpc, cpipe, lastDone, seen>>

wvars == <<conv, wstr, wlist, stickers, tags, wlast, wpairs, wacc, wfail>>

rvars == <<wstep, wreplied>>

evars == <<einst, tpc, tcall, elast, eloop>>

avars == <<etpl, alast>>

vars == <<qvars, lvars, cvars, wvars, evars, avars, rvars>>

-----------------------------------------------------------------------------
(* Option<T> and Result<_> values.  T values are records so that a value    *)
(* as the store holds it and its cache representation are different values. *)

NoVal == [form |-> "none", id |-> "-"]
None == [tag |-> "None", val |-> NoVal]
Some(v) == [tag |-> "Some", val |-> v]

Ok(opt) == [tag |-> "Ok", opt |-> opt, err |-> "-"]
Err(e) == [tag |-> "Err", opt |-> None, err |-> e]
NoRet == [tag |-> "-", opt |-> None, err |-> "-"]
NoCrash == [key |-> "-", cache |-> <<>>, cache0 |-> <<>>]

QKeys == {"k1", "k2"}
StoreIds == {"v1", "v2"}
StoreVal(i) == [form |-> "store", id |-> i]
\* the representation the populate strategy writes to the cache and returns
CacheRepr(v) == [form |-> "cache", id |-> v.id]

-----------------------------------------------------------------------------
(* The three caller-supplied strategies.  Each gives the set of outcomes a  *)
(* call can have: the callbacks return Result, so each may fail.            *)

\* read(key, cache): cache lookup
redis_query_cb(key, cache) == {Ok(cache[key]), Err("cache")}

\* load(key, store): durable lookup
sql_query_cb(key, db) == {Ok(db[key]), Err("store")}

\* populate(key, v, cache): writes the cache representation of v, returns it
miss_query_cb(key, val, cache) ==
    { [res |-> Ok(Some(CacheRepr(val))),
       cache |-> [cache EXCEPT ![key] = Some(CacheRepr(val))]],
      [res |-> Err("cache"), cache |-> cache] }

Call(cb, key, arg, out) == [cb |-> cb, key |-> key, arg |-> arg, out |-> out]

-----------------------------------------------------------------------------
(* CachedQueryTrait::query, one action per await point.                     *)

QueryCall(key) ==
    /\ qpc = "idle"
    /\ qpc' = "redis"
    /\ qkey' = key
    /\ qval' = NoVal
    /\ qret' = NoRet
    /\ qcalls' = <<>>
    /\ qcache0' = qcache
    /\ UNCHANGED <<qcache, qdb, qcrash>>

\* a query that consults the store even on a cache hit
QueryRedisIgnoresHit ==
    /\ qpc = "redis"
    /\ \E out \in redis_query_cb(qkey, qcache) :
          /\ qcalls' = Append(qcalls, Call("redis_query", qkey, NoVal, out))
          /\ IF out.tag = "Err"
               THEN qret' = out /\ qpc' = "done"
               ELSE qret' = qret /\ qpc' = "sql"
    /\ UNCHANGED <<qcache, qdb, qkey, qval, qcache0, qcrash>>

\* if let Some(val) = self.redis_query.cb(key, redis).await? { Ok(Some(val)) }
QueryRedis ==
    /\ qpc = "redis"
    /\ \E out \in redis_query_cb(qkey, qcache) :
          /\ qcalls' = Append(qcalls, Call("redis_query", qkey, NoVal, out))
          /\ IF out.tag = "Err"
               THEN qret' = out /\ qpc' = "done"
               ELSE IF out.opt.tag = "Some"
                      THEN qret' = Ok(Some(out.opt.val)) /\ qpc' = "done"
                      ELSE qret' = qret /\ qpc' = "sql"
    /\ UNCHANGED <<qcache, qdb, qkey, qval, qcache0, qcrash>>

\* a query that takes a failed load for an absent key
QuerySqlSwallowsError ==
    /\ qpc = "sql"
    /\ \E out \in sql_query_cb(qkey, qdb) :
          /\ qcalls' = Append(qcalls, Call("sql_query", qkey, NoVal, out))
          /\ IF out.tag = "Ok" /\ out.opt.tag = "Some"
               THEN qval' = out.opt.val /\ qpc' = "miss" /\ qret' = qret
               ELSE qret' = Ok(None) /\ qpc' = "done" /\ qval' = qval
    /\ UNCHANGED <<qcache, qdb, qkey, qcache0, qcrash>>

\* a query that puts the loaded value in the cache before populate runs
QuerySqlCachesEagerly ==
    /\ qpc = "sql"
    /\ \E out \in sql_query_cb(qkey, qdb) :
          /\ qcalls' = Append(qcalls, Call("sql_query", qkey, NoVal, out))
          /\ IF out.tag = "Err"
               THEN qret' = out /\ qpc' = "done" /\ qval' = qval
                    /\ qcache' = qcache
               ELSE IF out.opt.tag = "Some"
                      THEN qval' = out.opt.val /\ qpc' = "miss" /\ qret' = qret
                           /\ qcache' = [qcache EXCEPT ![qkey] = Some(out.opt.val)]
                      ELSE qret' = Ok(None) /\ qpc' = "done" /\ qval' = qval
                           /\ qcache' = qcache
    /\ UNCHANGED <<qdb, qkey, qcache0, qcrash>>

\* a query that caches the absence of the key
QuerySqlCachesAbsence ==
    /\ qpc = "sql"
    /\ \E out \in sql_query_cb(qkey, qdb) :
          /\ qcalls' = Append(qcalls, Call("sql_query", qkey, NoVal, out))
          /\ IF out.tag = "Err"
               THEN qret' = out /\ qpc' = "done" /\ qval' = qval
                    /\ qcache' = qcache
               ELSE IF out.opt.tag = "Some"
                      THEN qval' = out.opt.val /\ qpc' = "miss" /\ qret' = qret
                           /\ qcache' = qcache
                      ELSE qret' = Ok(None) /\ qpc' = "done" /\ qval' = qval
                           /\ qcache' = [qcache EXCEPT ![qkey] = Some(NoVal)]
    /\ UNCHANGED <<qdb, qkey, qcache0, qcrash>>

\* let val = self.sql_query.cb(key, db).await?; if let Some(val) = val ... else Ok(None)
QuerySql ==
    /\ qpc = "sql"
    /\ \E out \in sql_query_cb(qkey, qdb) :
          /\ qcalls' = Append(qcalls, Call("sql_query", qkey, NoVal, out))
          /\ IF out.tag = "Err"
               THEN qret' = out /\ qpc' = "done" /\ qval' = qval
               ELSE IF out.opt.tag = "Some"
                      THEN qval' = out.opt.val /\ qpc' = "miss" /\ qret' = qret
                      ELSE qret' = Ok(None) /\ qpc' = "done" /\ qval' = qval
    /\ UNCHANGED <<qcache, qdb, qkey, qcache0, qcrash>>

\* a query that populates the cache but returns the loaded value itself
QueryMissReturnsLoaded ==
    /\ qpc = "miss"
    /\ \E o \in miss_query_cb(qkey, qval, qcache) :
          /\ qcalls' = Append(qcalls, Call("miss_query", qkey, qval, o.res))
          /\ qcache' = o.cache
          /\ qret' = IF o.res.tag = "Err" THEN o.res ELSE Ok(Some(qval))
          /\ qpc' = "done"
    /\ UNCHANGED <<qdb, qkey, qval, qcache0, qcrash>>

\* Ok(Some(self.miss_query.cb(key, val, redis).await?))
QueryMiss ==
    /\ qpc = "miss"
    /\ \E o \in miss_query_cb(qkey, qval, qcache) :
          /\ qcalls' = Append(qcalls, Call("miss_query", qkey, qval, o.res))
          /\ qcache' = o.cache
          /\ qret' = IF o.res.tag = "Err" THEN o.res ELSE Ok(Some(o.res.opt.val))
          /\ qpc' = "done"
    /\ UNCHANGED <<qdb, qkey, qval, qcache0, qcrash>>

\* the caller takes the result; the engine is ready for the next query
QueryReturn ==
    /\ qpc = "done"
    /\ qpc' = "idle"
    /\ qcrash' = IF qcrash.key = qkey THEN NoCrash ELSE qcrash
    /\ UNCHANGED <<qcache, qdb, qkey, qval, qret, qcalls, qcache0>>

\* the process stops after sql_query returned a value and before miss_query
\* ran: the run does nothing more, the cache and the store stay
QueryCrash ==
    /\ qpc = "miss"
    /\ qpc' = "idle"
    /\ qcrash' = [key |-> qkey, cache |-> qcache, cache0 |-> qcache0]
    /\ UNCHANGED <<qcache, qdb, qkey, qval, qret, qcalls, qcache0>>

(* Between queries the business features write the store and the cache      *)
(* backend evicts entries.                                                  *)
StoreWrite(key, i) ==
    /\ qpc = "idle"
    /\ qdb' = [qdb EXCEPT ![key] = Some(StoreVal(i))]
    /\ UNCHANGED <<qcache, qpc, qkey, qval, qret, qcalls, qcache0, qcrash>>

StoreDelete(key) ==
    /\ qpc = "idle"
    /\ qdb[key].tag = "Some"
    /\ qdb' = [qdb EXCEPT ![key] = None]
    /\ UNCHANGED <<qcache, qpc, qkey, qval, qret, qcalls, qcache0, qcrash>>

CacheEvict(key) ==
    /\ qpc = "idle"
    /\ qcache[key].tag = "Some"
    /\ qcache' = [qcache EXCEPT ![key] = None]
    /\ UNCHANGED <<qdb, qpc, qkey, qval, qret, qcalls, qcache0, qcrash>>

QInit ==
    /\ qcache = [k \in QKeys |-> None]
    /\ qdb = [k \in QKeys |-> None]
    /\ qpc = "idle"
    /\ qkey = "k1"
    /\ qval = NoVal
    /\ qret = NoRet
    /\ qcalls = <<>>
    /\ qcache0 = [k \in QKeys |-> None]
    /\ qcrash = NoCrash

-----------------------------------------------------------------------------
(* Redis list staging.  What create_list is given are items of any         *)
(* Serialize type V; what drain_list::<R> returns are values of the type R  *)
(* it is asked for (ModelRedis, the staged tag, in the wizard).             *)

LKeys == {"la"}
MaxLen == 2

Item(ty, id) == [ty |-> ty, id |-> id]
NoItem == Item("-", "-")
TagItems == {Item("tag", "a"), Item("tag", "b")}    \* values of type R
OtherItem == Item("other", "x")     \* a value of another Serialize type
UnserItem == Item("unser", "u")     \* a value whose Serialize impl fails
Items == TagItems \cup {OtherItem, UnserItem}

RECURSIVE SeqsUpTo(_, _)
SeqsUpTo(S, n) ==
    IF n = 0 THEN {<<>>}
    ELSE LET shorter == SeqsUpTo(S, n - 1)
         IN shorter \cup {Append(q, x) : q \in {r \in shorter : Len(r) = n - 1}, x \in S}

NoBytes == [fmt |-> "-", ty |-> "-", body |-> "-"]

\* RedisStr::new: rmp_serde::to_vec(val)?
RedisStr_new(val) ==
    IF val.ty = "unser"
      THEN [ok |-> FALSE, bytes |-> NoBytes]
      ELSE [ok |-> TRUE, bytes |-> [fmt |-> "msgpack", ty |-> val.ty, body |-> val.id]]

\* rmp_serde::from_slice::<R>: fails when the bytes are not the layout of R
from_slice(bytes) ==
    IF bytes.fmt = "msgpack" /\ bytes.ty = "tag"
      THEN [ok |-> TRUE, val |-> Item("tag", bytes.body)]
      ELSE [ok |-> FALSE, val |-> NoItem]

\* redis commands as queued on a Pipeline
DEL(key) == [op |-> "DEL", key |-> key, arg |-> NoBytes]
LPUSH(key, bytes) == [op |-> "LPUSH", key |-> key, arg |-> bytes]

\* the redis server applying one command: LPUSH inserts at the head
ApplyCmd(store, cmd) ==
    IF cmd.op = "DEL"
      THEN [store EXCEPT ![cmd.key] = <<>>]
      ELSE [store EXCEPT ![cmd.key] = <<cmd.arg>> \o store[cmd.key]]

RECURSIVE ApplyCmds(_, _)
ApplyCmds(store, cmds) ==
    IF cmds = <<>> THEN store
    ELSE ApplyCmds(ApplyCmd(store, Head(cmds)), Tail(cmds))

\* LRANGE key 0 -1: the whole list, head first
LRANGE(store, key) == store[key]

\* for item in obj { let obj = RedisStr::new(&item)?; p.lpush(key, &obj); }
RECURSIVE push_items(_, _, _)
push_items(key, obj, cmds) ==
    IF obj = <<>> THEN [ok |-> TRUE, cmds |-> cmds]
    ELSE LET e == RedisStr_new(Head(obj))
         IN IF ~e.ok THEN [ok |-> FALSE, cmds |-> cmds]
            ELSE push_items(key, Tail(obj), Append(cmds, LPUSH(key, e.bytes)))

\* a create_list that pushes without deleting the prior list
create_list_no_del(key, obj) ==
    LET r == push_items(key, obj, <<>>)
    IN [ok |-> r.ok, atomic |-> TRUE, cmds |-> r.cmds]

\* a create_list that forgets p.atomic()
create_list_not_atomic(key, obj) ==
    LET r == push_items(key, obj, <<DEL(key)>>)
    IN [ok |-> r.ok, atomic |-> FALSE, cmds |-> r.cmds]

\* the closure create_list hands to try_pipe: what it queued on the pipeline
\* and whether it returned Ok
create_list_build(key, obj) ==
    LET r == push_items(key, obj, <<DEL(key)>>)
    IN [ok |-> r.ok, atomic |-> TRUE, cmds |-> r.cmds]

\* a try_pipe that runs what was queued although the closure failed
try_pipe_runs_partial(built) == built.cmds

\* try_pipe: let pipe = func(&mut pipe)?; ... pipe.query_async(conn)
\* the commands that are sent to the server
try_pipe(built) == IF built.ok THEN built.cmds ELSE <<>>

\* a collect that drops the elements that fail to decode
collect_skips_failures(raw) ==
    [ok |-> TRUE,
     out |-> SelectSeq([i \in DOMAIN raw |-> from_slice(raw[i]).val],
                       LAMBDA v : v # NoItem)]

\* .into_iter().map(from_slice).collect::<Result<Vec<R>>>(): the first Err
\* ends the iteration and is the result
RECURSIVE collect_from(_, _)
collect_from(raw, acc) ==
    IF raw = <<>> THEN [ok |-> TRUE, out |-> acc]
    ELSE LET d == from_slice(Head(raw))
         IN IF ~d.ok THEN [ok |-> FALSE, out |-> <<>>]
            ELSE collect_from(Tail(raw), Append(acc, d.val))

collect(raw) == collect_from(raw, <<>>)

NoCall == [op |-> "-", key |-> "la", items |-> <<>>, before |-> <<>>,
           sent |-> <<>>, res |-> "-", out |-> <<>>]
NoOrigin == [by |-> "-", items |-> <<>>]

\* RedisPool::create_list(key, obj); conn is whether pool.get() succeeds
create_list(key, obj, conn) ==
    LET built == create_list_build(key, obj)
        sent == IF conn THEN try_pipe(built) ELSE <<>>
    IN /\ Len(obj) <= MaxLen
       /\ lists' = ApplyCmds(lists, sent)
       /\ origin' = IF sent # <<>>
                      THEN [origin EXCEPT ![key] = [by |-> "create_list", items |-> obj]]
                      ELSE origin
       /\ last' = [op |-> "create_list", key |-> key, items |-> obj,
                   before |-> lists[key], sent |-> sent,
                   res |-> IF ~built.ok THEN "ErrEncode"
                           ELSE IF ~conn THEN "ErrRedis" ELSE "Ok",
                   out |-> <<>>]

\* RedisPool::drain_list::<R>(key); conn is whether pool.get() succeeds
drain_list(key, conn) ==
    LET got == collect(LRANGE(lists, key))
    IN /\ last' = [op |-> "drain_list", key |-> key, items |-> <<>>,
                   before |-> lists[key], sent |-> <<>>,
                   res |-> IF ~conn THEN "ErrRedis"
                           ELSE IF ~got.ok THEN "ErrDecode" ELSE "Ok",
                   out |-> IF conn THEN got.out ELSE <<>>]
       /\ UNCHANGED <<lists, origin>>

\* the staging push of conv_moretags:
\* RedisStr::new(&tag)?; REDIS.pipe(|p| { p.atomic(); p.lpush(taglist, &tag) })
lpush_item(key, item) ==
    LET e == RedisStr_new(item)
    IN /\ Len(lists[key]) < MaxLen
       /\ lists' = IF e.ok THEN ApplyCmds(lists, <<LPUSH(key, e.bytes)>>) ELSE lists
       /\ origin' = IF e.ok THEN [origin EXCEPT ![key] = [by |-> "lpush", items |-> <<>>]]
                    ELSE origin
       /\ last' = [op |-> "lpush", key |-> key, items |-> <<item>>,
                   before |-> lists[key], sent |-> <<>>,
                   res |-> IF e.ok THEN "Ok" ELSE "ErrEncode", out |-> <<>>]

LInit ==
    /\ lists = [k \in LKeys |-> <<>>]
    /\ origin = [k \in LKeys |-> NoOrigin]
    /\ last = NoCall

-----------------------------------------------------------------------------
(* Concurrent cache clients: tasks that call create_list, and a reader that *)
(* reads the list (the LRANGE of drain_list), all on one redis server.  The *)
(* server runs one command at a time; a pipeline marked atomic is sent as   *)
(* MULTI ... EXEC and run as one unit.                                      *)

Creators == {"c1", "c2"}
NoPipe == [key |-> "la", atomic |-> FALSE, cmds |-> <<>>, items |-> <<>>]
NotSeen == [read |-> FALSE, key |-> "la", list |-> <<>>, items |-> <<>>,
            during |-> {}]

\* create_list up to the await of query_async: the closure has run, the
\* pipeline is sent
conc_create_list(c, key, obj) ==
    LET built == create_list_build(key, obj)
        sent == try_pipe(built)
    IN /\ cpc[c] = "idle"
       /\ sent # <<>>
       /\ cpc' = [cpc EXCEPT ![c] = "sent"]
       /\ cpipe' = [cpipe EXCEPT ![c] = [key |-> key, atomic |-> built.atomic,
                                         cmds |-> sent, items |-> obj]]
       /\ UNCHANGED <<lists, lastDone, seen>>

\* the server takes the next unit of c's pipeline: all of it when it is
\* atomic, its next command otherwise
server_exec(c) ==
    LET p == cpipe[c]
        unit == IF p.atomic THEN p.cmds ELSE <<Head(p.cmds)>>
        rest == IF p.atomic THEN <<>> ELSE Tail(p.cmds)
    IN /\ cpc[c] = "sent"
       /\ p.cmds # <<>>
       /\ lists' = ApplyCmds(lists, unit)
       /\ cpipe' = [cpipe EXCEPT ![c].cmds = rest]
       /\ lastDone' = IF rest = <<>> THEN [lastDone EXCEPT ![p.key] = p.items]
                      ELSE lastDone
       /\ UNCHANGED <<cpc, seen>>

\* the reply arrives: pipe.query_async(..).await? returns, create_list is done
conc_create_return(c) ==
    /\ cpc[c] = "sent"
    /\ cpipe[c].cmds = <<>>
    /\ cpc' = [cpc EXCEPT ![c] = "idle"]
    /\ cpipe' = [cpipe EXCEPT ![c] = NoPipe]
    /\ UNCHANGED <<lists, lastDone, seen>>

\* another client's conn.lrange(key, 0, -1), as in drain_list
conc_lrange(key) ==
    /\ seen' = [read |-> TRUE, key |-> key, list |-> LRANGE(lists, key),
                items |-> lastDone[key],
                during |-> {c \in Creators : cpc[c] = "sent"}]
    /\ UNCHANGED <<lists, cpc, cpipe, lastDone>>

CInit ==
    /\ cpc = [c \in Creators |-> "idle"]
    /\ cpipe = [c \in Creators |-> NoPipe]
    /\ lastDone = [k \in LKeys |-> <<>>]
    /\ seen = NotSeen

-----------------------------------------------------------------------------
(* The conversation (workflow) engine: templates of states and labelled     *)
(* transitions, and instances with a current-state pointer.  A state id is  *)
(* the position of the state in the template.                               *)

\* construct: the template with a first state that lacks the start marker
Conversation_new_unmarked(triggerphrase, content, chat, user) ==
    [triggerphrase |-> triggerphrase, chat |-> chat, user |-> user,
     states |-> <<[content |-> content, start |-> FALSE]>>,
     transitions |-> {}]

\* construct: the template with its start state
Conversation_new(triggerphrase, content, chat, user) ==
    [triggerphrase |-> triggerphrase, chat |-> chat, user |-> user,
     states |-> <<[content |-> content, start |-> TRUE]>>,
     transitions |-> {}]

\* the start-state lookup; 0: no state carries the marker (an error)
get_start(c) ==
    IF \E i \in DOMAIN c.states : c.states[i].start
      THEN CHOOSE i \in DOMAIN c.states : c.states[i].start
      ELSE 0

\* a row for the states table: start_for is unique, so a second state marked
\* as the start of the template is refused and the table stays as it was
insert_state(c, row) ==
    IF row.start /\ \E i \in DOMAIN c.states : c.states[i].start
      THEN c
      ELSE [c EXCEPT !.states = Append(@, row)]

\* addState: appends a node; its id is the new length
add_state(c, content) == insert_state(c, [content |-> content, start |-> FALSE])

\* addTransition: appends a directed labelled edge
add_transition(c, from, to, label) ==
    [c EXCEPT !.transitions =
        @ \cup {[start_state |-> from, end_state |-> to, triggerphrase |-> label]}]

\* getCurrentText: the prompt of the state the pointer refers to
get_current_text(inst) == inst.tpl.states[inst.cur].content

\* the edge is looked up by its source state alone, whatever its label
transition_by_source_only(inst, label) ==
    LET edges == {t \in inst.tpl.transitions : t.start_state = inst.cur}
    IN IF edges = {}
         THEN {[ok |-> FALSE, inst |-> inst, text |-> "no such transition"]}
         ELSE {[ok |-> TRUE, inst |-> [inst EXCEPT !.cur = t.end_state],
                text |-> inst.tpl.states[t.end_state].content] : t \in edges}

\* the edge is looked up by its label alone, whatever state it leaves
transition_by_label_only(inst, label) ==
    LET edges == {t \in inst.tpl.transitions : t.triggerphrase = label}
    IN IF edges = {}
         THEN {[ok |-> FALSE, inst |-> inst, text |-> "no such transition"]}
         ELSE {[ok |-> TRUE, inst |-> [inst EXCEPT !.cur = t.end_state],
                text |-> inst.tpl.states[t.end_state].content] : t \in edges}

\* transition: the edge from the current state with the label; the outcomes
\* of the call (one per matching edge: the lookup among several is undefined)
transition(inst, label) ==
    LET edges == {t \in inst.tpl.transitions :
                    t.start_state = inst.cur /\ t.triggerphrase = label}
    IN IF edges = {}
         THEN {[ok |-> FALSE, inst |-> inst, text |-> "no such transition"]}
         ELSE {[ok |-> TRUE, inst |-> [inst EXCEPT !.cur = t.end_state],
                text |-> inst.tpl.states[t.end_state].content] : t \in edges}

-----------------------------------------------------------------------------
(* The sticker-upload wizard.                                               *)

KEY_TYPE_TAG == "wc:tag"
KEY_TYPE_STICKER_ID == "wc:stickerid"
KEY_TYPE_STICKER_NAME == "wc:stickername"

UPLOAD_CMD == "/upload"
TRANSITION_NAME == "stickername"
TRANSITION_DONE == "stickerdone"
TRANSITION_UPLOAD == "upload"
TRANSITION_TAG == "stickertag"
TRANSITION_MORETAG == "stickermoretag"
STATE_START == "Send a sticker to upload"
STATE_UPLOAD == "sticker uploaded"
STATE_NAME == "Send a name for this sticker"
STATE_TAGS == "Send tags for this sticker, one at a time. Send /done to stop"
STATE_DONE == "Successfully uploaded sticker"

Pairs == {[chat |-> "c1", user |-> "u1"], [chat |-> "c1", user |-> "u2"]}
Files == {"f1", "f2"}       \* sticker file ids
Words == {"w1", "w2"}       \* texts that are no command
\* each user sends stickers and words of their own
FilesOf(p) == IF p.user = "u1" THEN {"f1"} ELSE {"f2"}
WordsOf(p) == IF p.user = "u1" THEN {"w1"} ELSE {"w2"}
MaxTags == 2                \* staged tags per list

\* messages: a text (a command with its argument, or a word) or a sticker
TextMsg(p, text, arg) == [pair |-> p, kind |-> "text", text |-> text, arg |-> arg]
StickerMsg(p, f) == [pair |-> p, kind |-> "sticker", text |-> "-", arg |-> f]
\* what can fail while one message is handled
Failures == {"none", "redis", "tg", "sticker_insert", "tags_insert"}

\* the key is scoped by the chat alone
scope_key_chat_only(key, message, prefix) ==
    <<prefix, message.pair.chat, "-", key>>

scope_key(key, message, prefix) ==
    <<prefix, message.pair.chat, message.pair.user, key>>

scope_key_by_chatuser(key, message) == scope_key(key, message, "cu")

WKeys == {scope_key_by_chatuser(k, TextMsg(p, "-", "-")) :
            p \in Pairs, k \in {KEY_TYPE_TAG, KEY_TYPE_STICKER_ID, KEY_TYPE_STICKER_NAME}}

NoConv == [tpl |-> Conversation_new("-", "-", "-", "-"), cur |-> 0]
Nil == "nil"
NoRow == [owner_id |-> "-", chosen_name |-> "-"]

\* the tag as staged in redis
ModelRedis(sticker_id, owner_id, tag) == Item("tag", <<sticker_id, owner_id, tag>>)
\* m.into_active_model(): the row to insert
TagRow(m) == [sticker_id |-> m.id[1], owner_id |-> m.id[2], tag |-> m.id[3]]

\* a template whose two edges out of the tags state carry the same label
upload_sticker_conversation_same_label(message) ==
    LET c0 == Conversation_new(UPLOAD_CMD, STATE_START, message.pair.chat, message.pair.user)
        start_state == get_start(c0)
        c1 == add_state(c0, STATE_UPLOAD)
        upload_state == Len(c1.states)
        c2 == add_state(c1, STATE_NAME)
        name_state == Len(c2.states)
        c3 == add_state(c2, STATE_TAGS)
        state_tags == Len(c3.states)
        c4 == add_state(c3, STATE_DONE)
        state_done == Len(c4.states)
        t1 == add_transition(c4, start_state, upload_state, TRANSITION_UPLOAD)
        t2 == add_transition(t1, upload_state, name_state, TRANSITION_NAME)
        t3 == add_transition(t2, name_state, state_tags, TRANSITION_TAG)
        t4 == add_transition(t3, state_tags, state_tags, TRANSITION_MORETAG)
    IN add_transition(t4, state_tags, state_done, TRANSITION_MORETAG)

\* a template whose last edge has its source and destination swapped
upload_sticker_conversation_swapped_done(message) ==
    LET c0 == Conversation_new(UPLOAD_CMD, STATE_START, message.pair.chat, message.pair.user)
        start_state == get_start(c0)
        c1 == add_state(c0, STATE_UPLOAD)
        upload_state == Len(c1.states)
        c2 == add_state(c1, STATE_NAME)
        name_state == Len(c2.states)
        c3 == add_state(c2, STATE_TAGS)
        state_tags == Len(c3.states)
        c4 == add_state(c3, STATE_DONE)
        state_done == Len(c4.states)
        t1 == add_transition(c4, start_state, upload_state, TRANSITION_UPLOAD)
        t2 == add_transition(t1, upload_state, name_state, TRANSITION_NAME)
        t3 == add_transition(t2, name_state, state_tags, TRANSITION_TAG)
        t4 == add_transition(t3, state_tags, state_tags, TRANSITION_MORETAG)
    IN add_transition(t4, state_done, state_tags, TRANSITION_DONE)

upload_sticker_conversation(message) ==
    LET c0 == Conversation_new(UPLOAD_CMD, STATE_START, message.pair.chat, message.pair.user)
        start_state == get_start(c0)
        c1 == add_state(c0, STATE_UPLOAD)
        upload_state == Len(c1.states)
        c2 == add_state(c1, STATE_NAME)
        name_state == Len(c2.states)
        c3 == add_state(c2, STATE_TAGS)
        state_tags == Len(c3.states)
        c4 == add_state(c3, STATE_DONE)
        state_done == Len(c4.states)
        t1 == add_transition(c4, start_state, upload_state, TRANSITION_UPLOAD)
        t2 == add_transition(t1, upload_state, name_state, TRANSITION_NAME)
        t3 == add_transition(t2, name_state, state_tags, TRANSITION_TAG)
        t4 == add_transition(t3, state_tags, state_tags, TRANSITION_MORETAG)
    IN add_transition(t4, state_tags, state_done, TRANSITION_DONE)

(* A handler maps the state st = [conv, wstr, wlist, stickers, tags] to the *)
(* set of its outcomes [st, res, calls]: the state it leaves, its result    *)
(* and the transition calls it made.                                        *)

Out(st, res, calls) == [st |-> st, res |-> res, calls |-> calls]
TCall(inst, label, o) ==
    [from |-> inst.cur, label |-> label, ok |-> o.ok, to |-> o.inst.cur, text |-> o.text]

\* conversation.transition(label).await? and the rest of the handler, which
\* only sends the reply
transition_then_send(st, message, label, fail, send_after) ==
    LET p == message.pair
    IN { IF ~o.ok THEN Out(st, "Err: no such transition", <<TCall(st.conv[p], label, o)>>)
         ELSE Out([st EXCEPT !.conv[p] = o.inst],
                  IF send_after /\ fail = "tg" THEN "Err: tg" ELSE "Ok",
                  <<TCall(st.conv[p], label, o)>>)
         : o \in transition(st.conv[p], label) }

conv_start(st, message, fail) ==
    IF fail = "tg" THEN {Out(st, "Err: tg", <<>>)}
    ELSE transition_then_send(st, message, TRANSITION_UPLOAD, fail, FALSE)

\* the tag list of the pair is deleted before the message is looked at
conv_upload_clears_first(st, message, fail) ==
    LET key == scope_key_by_chatuser(KEY_TYPE_STICKER_ID, message)
        taglist == scope_key_by_chatuser(KEY_TYPE_TAG, message)
        st0 == [st EXCEPT !.wlist = ApplyCmd(@, DEL(taglist))]
        st1 == [st0 EXCEPT !.wstr[key] = message.arg]
    IN IF fail = "redis" THEN {Out(st, "Err: redis", <<>>)}
       ELSE IF message.kind = "sticker"
         THEN transition_then_send(st1, message, TRANSITION_NAME, fail, TRUE)
         ELSE {Out(st0, "Err: Send a sticker", <<>>)}

\* the sticker id is staged and the tag list of the pair is left as it is
conv_upload_keeps_taglist(st, message, fail) ==
    LET key == scope_key_by_chatuser(KEY_TYPE_STICKER_ID, message)
        st1 == [st EXCEPT !.wstr[key] = message.arg]
    IN IF message.kind = "sticker"
         THEN IF fail = "redis" THEN {Out(st, "Err: redis", <<>>)}
              ELSE transition_then_send(st1, message, TRANSITION_NAME, fail, TRUE)
         ELSE {Out(st, "Err: Send a sticker", <<>>)}

conv_upload(st, message, fail) ==
    LET key == scope_key_by_chatuser(KEY_TYPE_STICKER_ID, message)
        taglist == scope_key_by_chatuser(KEY_TYPE_TAG, message)
        st1 == [st EXCEPT !.wstr[key] = message.arg,
                          !.wlist = ApplyCmd(@, DEL(taglist))]
    IN IF message.kind = "sticker"
         THEN IF fail = "redis" THEN {Out(st, "Err: redis", <<>>)}
              ELSE transition_then_send(st1, message, TRANSITION_NAME, fail, TRUE)
         ELSE {Out(st, "Err: Send a sticker", <<>>)}

\* the name handler passes the label of the edge that led to its own state
conv_name_wrong_label(st, message, fail) ==
    LET key == scope_key_by_chatuser(KEY_TYPE_STICKER_NAME, message)
        st1 == [st EXCEPT !.wstr[key] = message.text]
    IN IF fail = "redis" \/ message.kind # "text" THEN {Out(st, "Err: redis", <<>>)}
       ELSE transition_then_send(st1, message, TRANSITION_NAME, fail, TRUE)

\* p.set(&key, message.text()): with no text the SET has no value and fails
conv_name(st, message, fail) ==
    LET key == scope_key_by_chatuser(KEY_TYPE_STICKER_NAME, message)
        st1 == [st EXCEPT !.wstr[key] = message.text]
    IN IF fail = "redis" \/ message.kind # "text" THEN {Out(st, "Err: redis", <<>>)}
       ELSE transition_then_send(st1, message, TRANSITION_TAG, fail, TRUE)

\* /done passes the label of the self-loop
conv_moretags_done_wrong_label(st, message, fail) ==
    LET key == scope_key_by_chatuser(KEY_TYPE_STICKER_ID, message)
        namekey == scope_key_by_chatuser(KEY_TYPE_STICKER_NAME, message)
        taglist == scope_key_by_chatuser(KEY_TYPE_TAG, message)
        sticker_id == st.wstr[key]
        user == message.pair.user
        stickername == st.wstr[namekey]
        got == collect(LRANGE(st.wlist, taglist))
        rows == [i \in DOMAIN got.out |-> TagRow(got.out[i])]
        st1 == [st EXCEPT !.stickers[sticker_id] =
                    [owner_id |-> user, chosen_name |-> stickername]]
        st2 == [st1 EXCEPT !.tags = @ \o rows]
        tag == RedisStr_new(ModelRedis(sticker_id, user, message.text))
        st3 == [st EXCEPT !.wlist = ApplyCmds(@, <<LPUSH(taglist, tag.bytes)>>)]
    IN IF fail = "redis" \/ sticker_id = Nil THEN {Out(st, "Err: redis", <<>>)}
       ELSE IF message.kind # "text" THEN {Out(st, "Err: no text", <<>>)}
       ELSE IF message.text = "/done"
         THEN IF stickername = Nil THEN {Out(st, "Err: redis", <<>>)}
              ELSE IF ~got.ok THEN {Out(st, "Err: decode", <<>>)}
              ELSE IF fail = "sticker_insert" \/ st.stickers[sticker_id] # NoRow
                THEN {Out(st, "Err: store", <<>>)}
              ELSE IF fail = "tags_insert"
                        \/ \E i \in DOMAIN rows : st1.stickers[rows[i].sticker_id] = NoRow
                THEN {Out(st1, "Err: store", <<>>)}
              ELSE transition_then_send(st2, message, TRANSITION_MORETAG, fail, TRUE)
         ELSE IF ~tag.ok THEN {Out(st, "Err: encode", <<>>)}
              ELSE transition_then_send(st3, message, TRANSITION_MORETAG, fail, TRUE)

\* the drain at /done reads the tag list and deletes it
conv_moretags_drain_clears(st, message, fail) ==
    LET key == scope_key_by_chatuser(KEY_TYPE_STICKER_ID, message)
        namekey == scope_key_by_chatuser(KEY_TYPE_STICKER_NAME, message)
        taglist == scope_key_by_chatuser(KEY_TYPE_TAG, message)
        sticker_id == st.wstr[key]
        user == message.pair.user
        stickername == st.wstr[namekey]
        got == collect(LRANGE(st.wlist, taglist))
        rows == [i \in DOMAIN got.out |-> TagRow(got.out[i])]
        st0 == [st EXCEPT !.wlist = ApplyCmd(@, DEL(taglist))]
        st1 == [st0 EXCEPT !.stickers[sticker_id] =
                    [owner_id |-> user, chosen_name |-> stickername]]
        st2 == [st1 EXCEPT !.tags = @ \o rows]
        tag == RedisStr_new(ModelRedis(sticker_id, user, message.text))
        st3 == [st EXCEPT !.wlist = ApplyCmds(@, <<LPUSH(taglist, tag.bytes)>>)]
    IN IF fail = "redis" \/ sticker_id = Nil THEN {Out(st, "Err: redis", <<>>)}
       ELSE IF message.kind # "text" THEN {Out(st, "Err: no text", <<>>)}
       ELSE IF message.text = "/done"
         THEN IF stickername = Nil THEN {Out(st, "Err: redis", <<>>)}
              ELSE IF ~got.ok THEN {Out(st, "Err: decode", <<>>)}
              ELSE IF fail = "sticker_insert" \/ st.stickers[sticker_id] # NoRow
                THEN {Out(st0, "Err: store", <<>>)}
              ELSE IF fail = "tags_insert"
                        \/ \E i \in DOMAIN rows : st1.stickers[rows[i].sticker_id] = NoRow
                THEN {Out(st1, "Err: store", <<>>)}
              ELSE transition_then_send(st2, message, TRANSITION_DONE, fail, TRUE)
         ELSE IF ~tag.ok THEN {Out(st, "Err: encode", <<>>)}
              ELSE transition_then_send(st3, message, TRANSITION_MORETAG, fail, TRUE)

\* the failure of an insert is logged and the wizard goes on
conv_moretags_ignores_store_errors(st, message, fail) ==
    LET key == scope_key_by_chatuser(KEY_TYPE_STICKER_ID, message)
        namekey == scope_key_by_chatuser(KEY_TYPE_STICKER_NAME, message)
        taglist == scope_key_by_chatuser(KEY_TYPE_TAG, message)
        sticker_id == st.wstr[key]
        user == message.pair.user
        stickername == st.wstr[namekey]
        got == collect(LRANGE(st.wlist, taglist))
        rows == [i \in DOMAIN got.out |-> TagRow(got.out[i])]
        st1 == [st EXCEPT !.stickers[sticker_id] =
                    [owner_id |-> user, chosen_name |-> stickername]]
        st2 == [st1 EXCEPT !.tags = @ \o rows]
        tag == RedisStr_new(ModelRedis(sticker_id, user, message.text))
        st3 == [st EXCEPT !.wlist = ApplyCmds(@, <<LPUSH(taglist, tag.bytes)>>)]
    IN IF fail = "redis" \/ sticker_id = Nil THEN {Out(st, "Err: redis", <<>>)}
       ELSE IF message.kind # "text" THEN {Out(st, "Err: no text", <<>>)}
       ELSE IF message.text = "/done"
         THEN IF stickername = Nil THEN {Out(st, "Err: redis", <<>>)}
              ELSE IF ~got.ok THEN {Out(st, "Err: decode", <<>>)}
              ELSE IF fail = "sticker_insert" \/ st.stickers[sticker_id] # NoRow
                THEN transition_then_send(st, message, TRANSITION_DONE, fail, TRUE)
              ELSE IF fail = "tags_insert"
                        \/ \E i \in DOMAIN rows : st1.stickers[rows[i].sticker_id] = NoRow
                THEN transition_then_send(st1, message, TRANSITION_DONE, fail, TRUE)
              ELSE transition_then_send(st2, message, TRANSITION_DONE, fail, TRUE)
         ELSE IF ~tag.ok THEN {Out(st, "Err: encode", <<>>)}
              ELSE transition_then_send(st3, message, TRANSITION_MORETAG, fail, TRUE)

conv_moretags(st, message, fail) ==
    LET key == scope_key_by_chatuser(KEY_TYPE_STICKER_ID, message)
        namekey == scope_key_by_chatuser(KEY_TYPE_STICKER_NAME, message)
        taglist == scope_key_by_chatuser(KEY_TYPE_TAG, message)
        sticker_id == st.wstr[key]
        user == message.pair.user
        stickername == st.wstr[namekey]
        got == collect(LRANGE(st.wlist, taglist))
        rows == [i \in DOMAIN got.out |-> TagRow(got.out[i])]
        st1 == [st EXCEPT !.stickers[sticker_id] =
                    [owner_id |-> user, chosen_name |-> stickername]]
        st2 == [st1 EXCEPT !.tags = @ \o rows]
        tag == RedisStr_new(ModelRedis(sticker_id, user, message.text))
        st3 == [st EXCEPT !.wlist = ApplyCmds(@, <<LPUSH(taglist, tag.bytes)>>)]
    IN IF fail = "redis" \/ sticker_id = Nil THEN {Out(st, "Err: redis", <<>>)}
       ELSE IF message.kind # "text" THEN {Out(st, "Err: no text", <<>>)}
       ELSE IF message.text = "/done"
         THEN IF stickername = Nil THEN {Out(st, "Err: redis", <<>>)}
              ELSE IF ~got.ok THEN {Out(st, "Err: decode", <<>>)}
              ELSE IF fail = "sticker_insert" \/ st.stickers[sticker_id] # NoRow
                THEN {Out(st, "Err: store", <<>>)}
              ELSE IF fail = "tags_insert"
                        \/ \E i \in DOMAIN rows : st1.stickers[rows[i].sticker_id] = NoRow
                THEN {Out(st1, "Err: store", <<>>)}
              ELSE transition_then_send(st2, message, TRANSITION_DONE, fail, TRUE)
         ELSE IF ~tag.ok THEN {Out(st, "Err: encode", <<>>)}
              ELSE transition_then_send(st3, message, TRANSITION_MORETAG, fail, TRUE)

handle_conversation(st, message, fail) ==
    LET conversation == st.conv[message.pair]
    IN IF conversation = NoConv THEN {Out(st, "Ok", <<>>)}
       ELSE CASE get_current_text(conversation) = STATE_START ->
                   conv_start(st, message, fail)
              [] get_current_text(conversation) = STATE_UPLOAD ->
                   conv_upload(st, message, fail)
              [] get_current_text(conversation) = STATE_NAME ->
                   conv_name(st, message, fail)
              [] get_current_text(conversation) = STATE_TAGS ->
                   conv_moretags(st, message, fail)
              [] OTHER -> {Out(st, "Ok", <<>>)}

\* replace_conversation: the pair's instance is a new one, at the start state
upload(st, message) ==
    LET tpl == upload_sticker_conversation(message)
    IN [st EXCEPT !.conv[message.pair] = [tpl |-> tpl, cur |-> get_start(tpl)]]

drop_converstaion(st, message) == [st EXCEPT !.conv[message.pair] = NoConv]

list_stickers(st, message, fail) ==
    Out(drop_converstaion(st, message), IF fail = "tg" THEN "Err: tg" ELSE "Ok", <<>>)

\* the uuid of a sticker row stands for the row; its tags go with it (cascade)
delete_sticker(st, message, fail) ==
    LET st1 == drop_converstaion(st, message)
        st2 == [st1 EXCEPT !.stickers[message.arg] = NoRow,
                           !.tags = SelectSeq(@, LAMBDA r : r.sticker_id # message.arg)]
    IN IF message.arg \in Files
         THEN Out(st2, IF fail = "tg" THEN "Err: tg" ELSE "Ok", <<>>)
         ELSE Out(st1, "Err: invalid command args", <<>>)

handle_command(st, message, fail) ==
    IF message.kind = "text"
      THEN CASE message.text = "/upload" -> Out(upload(st, message), "Ok", <<>>)
             [] message.text = "/list" -> list_stickers(st, message, fail)
             [] message.text = "/delete" -> delete_sticker(st, message, fail)
             [] OTHER -> Out(st, "Ok", <<>>)
      ELSE Out(st, "Ok", <<>>)

\* a message that was a command is not given to the conversation handler
handle_message_stops_after_command(st, message, fail) ==
    LET c == handle_command(st, message, fail)
    IN IF c.res = "Ok" /\ ~(message.kind = "text" /\ message.text \in {"/upload", "/list", "/delete"})
         THEN handle_conversation(c.st, message, fail)
         ELSE {c}

\* handle_command(message).await?; handle_conversation(message).await?
handle_message(st, message, fail) ==
    LET c == handle_command(st, message, fail)
    IN IF c.res = "Ok" THEN handle_conversation(c.st, message, fail) ELSE {c}

NoAcc == [tags |-> <<>>, dropped |-> 0]
NoFail == [st |-> "-", insert |-> "-", rows |-> <<>>]
\* the tag rows a drain of the pair's list gives
drained_rows(lists_, message) ==
    LET got == collect(LRANGE(lists_, scope_key_by_chatuser(KEY_TYPE_TAG, message)))
    IN [i \in DOMAIN got.out |-> TagRow(got.out[i])]
NoMsg == [pair |-> [chat |-> "-", user |-> "-"], res |-> "-", calls |-> <<>>,
          text |-> "-", at |-> "-"]

\* handle_update for one message
HandleMessage(message, fail) ==
    /\ message.pair \in wpairs
    /\ \E o \in handle_message([conv |-> conv, wstr |-> wstr, wlist |-> wlist,
                             stickers |-> stickers, tags |-> tags], message, fail) :
          /\ \A k \in WKeys : Len(o.st.wlist[k]) <= MaxTags
          /\ conv' = o.st.conv
          /\ wstr' = o.st.wstr
          /\ wlist' = o.st.wlist
          /\ stickers' = o.st.stickers
          /\ tags' = o.st.tags
          /\ wlast' = [pair |-> message.pair, res |-> o.res, calls |-> o.calls,
                       text |-> message.text,
                       at |-> IF conv[message.pair] = NoConv THEN "-"
                              ELSE get_current_text(conv[message.pair])]
          /\ wacc' = [wacc EXCEPT ![message.pair] =
                IF \E i \in DOMAIN o.calls : o.calls[i].label = TRANSITION_NAME
                  THEN [tags |-> <<>>,
                        dropped |-> Len(wlist[scope_key_by_chatuser(KEY_TYPE_TAG, message)])]
                ELSE IF \E i \in DOMAIN o.calls : o.calls[i].label = TRANSITION_MORETAG
                  THEN [@ EXCEPT !.tags = Append(@, message.text)]
                ELSE @]
          /\ wfail' = [wfail EXCEPT ![message.pair] =
                IF message.text = "/done" /\ conv[message.pair] # NoConv
                     /\ get_current_text(conv[message.pair]) = STATE_TAGS
                  THEN IF o.res = "Err: store"
                         THEN [st |-> "failed",
                               insert |-> IF o.st.stickers = stickers
                                            THEN "sticker" ELSE "tags",
                               rows |-> drained_rows(wlist, message)]
                       ELSE IF o.res \in {"Ok", "Err: tg"}
                         THEN IF @.st = "failed" THEN [@ EXCEPT !.st = "retried"]
                              ELSE NoFail
                       ELSE @
                  ELSE NoFail]
    /\ UNCHANGED wpairs

WInit ==
    /\ conv = [p \in Pairs |-> NoConv]
    /\ wstr = [k \in WKeys |-> Nil]
    /\ wlist = [k \in WKeys |-> <<>>]
    /\ stickers = [f \in Files |-> NoRow]
    /\ tags = <<>>
    /\ wlast = NoMsg
    /\ wacc = [p \in Pairs |-> NoAcc]
    /\ wfail = [p \in Pairs |-> NoFail]
    /\ wpairs = {}

-----------------------------------------------------------------------------
(* The engine driven by concurrent tasks.  A transition call is two round   *)
(* trips to the store: the lookup of the edge, then the update of the       *)
(* instance's pointer; calls of different tasks interleave between them.    *)

Tasks == {"t1", "t2"}
ELabels == {TRANSITION_UPLOAD, TRANSITION_NAME, TRANSITION_TAG,
            TRANSITION_MORETAG, TRANSITION_DONE, "y"}
MaxLoop == 2                \* self-loop applications counted in a row

NoRival == [from |-> 0, to |-> 0]
NoTCall == [pair |-> [chat |-> "-", user |-> "-"], label |-> "-", from |-> 0,
            to |-> 0, text |-> "-", rival |-> NoRival]
NoStep == [kind |-> "-", task |-> "-", pair |-> [chat |-> "-", user |-> "-"],
           label |-> "-", from |-> 0, to |-> 0, ok |-> FALSE, text |-> "-",
           before |-> 0, after |-> 0, rival |-> NoRival]

\* the pointer update refuses when the pointer moved since the edge was found
apply_pointer_checked(inst, c) ==
    IF inst.cur = c.from
      THEN [ok |-> TRUE, inst |-> [inst EXCEPT !.cur = c.to], text |-> c.text]
      ELSE [ok |-> FALSE, inst |-> inst, text |-> "conflict"]

\* the pointer update of a transition whose edge was found: no version token
apply_pointer(inst, c) ==
    [ok |-> TRUE, inst |-> [inst EXCEPT !.cur = c.to], text |-> c.text]

\* the instance row is found by the chat alone
save_instance_by_chat(insts, pair, inst) ==
    [q \in DOMAIN insts |->
        IF q.chat = pair.chat /\ insts[q] # NoConv
          THEN [insts[q] EXCEPT !.cur = inst.cur]
          ELSE insts[q]]

\* the instance row of the chat/user pair is written
save_instance(insts, pair, inst) == [insts EXCEPT ![pair] = inst]

\* the lookup of the edge; a call with no edge ends here with the error
TransitionResolve(t, p, label) ==
    /\ tpc[t] = "idle"
    /\ einst[p] # NoConv
    /\ \E o \in transition(einst[p], label) :
          /\ elast' = [kind |-> IF o.ok THEN "resolve" ELSE "reject",
                       task |-> t, pair |-> p, label |-> label,
                       from |-> einst[p].cur, to |-> o.inst.cur, ok |-> o.ok,
                       text |-> o.text, before |-> einst[p].cur,
                       after |-> einst[p].cur, rival |-> NoRival]
          /\ IF o.ok
               THEN /\ tpc' = [tpc EXCEPT ![t] = "resolved"]
                    /\ tcall' = [tcall EXCEPT ![t] =
                                   [pair |-> p, label |-> label, from |-> einst[p].cur,
                                    to |-> o.inst.cur, text |-> o.text,
                                    rival |-> NoRival]]
               ELSE UNCHANGED <<tpc, tcall>>
    /\ UNCHANGED <<einst, eloop>>

\* the update of the pointer, and the reply
TransitionUpdate(t) ==
    /\ tpc[t] = "resolved"
    /\ LET c == tcall[t]
           r == apply_pointer(einst[c.pair], c)
           insts == IF r.ok THEN save_instance(einst, c.pair, r.inst) ELSE einst
       IN /\ einst' = insts
          /\ tpc' = [tpc EXCEPT ![t] = "idle"]
          /\ tcall' = [u \in Tasks |->
                         IF u = t THEN NoTCall
                         ELSE IF r.ok /\ tpc[u] = "resolved" /\ tcall[u].pair = c.pair
                           THEN [tcall[u] EXCEPT !.rival = [from |-> c.from, to |-> c.to]]
                           ELSE tcall[u]]
          /\ elast' = [kind |-> "update", task |-> t, pair |-> c.pair,
                       label |-> c.label, from |-> c.from, to |-> c.to, ok |-> r.ok,
                       text |-> r.text, before |-> einst[c.pair].cur,
                       after |-> insts[c.pair].cur, rival |-> c.rival]
          /\ eloop' = [eloop EXCEPT ![c.pair] =
                         IF r.ok /\ c.from = c.to /\ einst[c.pair].cur = c.to
                           THEN IF @ < MaxLoop THEN @ + 1 ELSE @
                           ELSE 0]

EInit ==
    /\ einst = [p \in Pairs |-> NoConv]
    /\ tpc = [t \in Tasks |-> "idle"]
    /\ tcall = [t \in Tasks |-> NoTCall]
    /\ elast = NoStep
    /\ eloop = [p \in Pairs |-> 0]

-----------------------------------------------------------------------------
(* Template authoring: construct, addState, addTransition and the lookup    *)
(* of the start state, on the templates of a small set of ids.              *)

TplIds == {"tA", "tB"}
Contents == {"A", "B"}
TLabels == {"x"}
MaxStates == 3              \* rows of the states table
MaxEdges == 2               \* rows of the transitions table

RECURSIVE SumOver(_, _)
SumOver(S, f) ==
    IF S = {} THEN 0
    ELSE LET x == CHOOSE y \in S : TRUE IN f[x] + SumOver(S \ {x}, f)
StateRows == SumOver(TplIds, [id \in TplIds |-> Len(etpl[id].states)])
EdgeRows == SumOver(TplIds, [id \in TplIds |-> Cardinality(etpl[id].transitions)])

NoTpl == [triggerphrase |-> "-", chat |-> "-", user |-> "-",
          states |-> <<>>, transitions |-> {}]
NoAuth == [op |-> "-", id |-> "-", ok |-> FALSE, state |-> 0]

\* Conversation::new under a template id: refused if the id is taken
Construct(id, content) ==
    /\ StateRows < MaxStates
    /\ etpl' = IF etpl[id] = NoTpl
                 THEN [etpl EXCEPT ![id] = Conversation_new("/cmd", content, "c1", "u1")]
                 ELSE etpl
    /\ alast' = [op |-> "construct", id |-> id, ok |-> etpl[id] = NoTpl,
                 state |-> get_start(etpl'[id])]

AddState(id, content) ==
    /\ etpl[id] # NoTpl
    /\ StateRows < MaxStates
    /\ etpl' = [etpl EXCEPT ![id] = add_state(@, content)]
    /\ alast' = [op |-> "add_state", id |-> id, ok |-> TRUE,
                 state |-> Len(etpl'[id].states)]

AddTransition(id, from, to, label) ==
    /\ etpl[id] # NoTpl
    /\ from \in DOMAIN etpl[id].states
    /\ to \in DOMAIN etpl[id].states
    /\ EdgeRows < MaxEdges
    /\ etpl' = [etpl EXCEPT ![id] = add_transition(@, from, to, label)]
    /\ alast' = [op |-> "add_transition", id |-> id, ok |-> TRUE, state |-> from]

GetStart(id) ==
    /\ etpl[id] # NoTpl
    /\ alast' = [op |-> "get_start", id |-> id, ok |-> get_start(etpl[id]) # 0,
                 state |-> get_start(etpl[id])]
    /\ UNCHANGED etpl

AInit ==
    /\ etpl = [id \in TplIds |-> NoTpl]
    /\ alast = NoAuth

-----------------------------------------------------------------------------
(* Specifications.                                                          *)

\* the run of one user starts with its /upload
RInit == wstep = "upload" /\ wreplied = TRUE

InitQuery == QInit /\ LInit /\ CInit /\ WInit /\ EInit /\ AInit /\ RInit

NextQuery ==
    \/ UNCHANGED <<lvars, cvars, wvars, evars, avars, rvars>> /\ \E key \in QKeys : QueryCall(key)
    \/ UNCHANGED <<lvars, cvars, wvars, evars, avars, rvars>> /\ QueryRedis
    \/ UNCHANGED <<lvars, cvars, wvars, evars, avars, rvars>> /\ QuerySql
    \/ UNCHANGED <<lvars, cvars, wvars, evars, avars, rvars>> /\ QueryMiss
    \/ UNCHANGED <<lvars, cvars, wvars, evars, avars, rvars>> /\ QueryReturn
    \/ UNCHANGED <<lvars, cvars, wvars, evars, avars, rvars>> /\ QueryCrash
    \/ UNCHANGED <<lvars, cvars, wvars, evars, avars, rvars>> /\ \E key \in QKeys, i \in StoreIds : StoreWrite(key, i)
    \/ UNCHANGED <<lvars, cvars, wvars, evars, avars, rvars>> /\ \E key \in QKeys : StoreDelete(key)
    \/ UNCHANGED <<lvars, cvars, wvars, evars, avars, rvars>> /\ \E key \in QKeys : CacheEvict(key)

SpecQuery == InitQuery /\ [][NextQuery]_vars

InitList == QInit /\ LInit /\ CInit /\ WInit /\ EInit /\ AInit /\ RInit

NextList ==
    \/ UNCHANGED <<qvars, cvars, wvars, evars, avars, rvars>> /\ \E key \in LKeys, obj \in SeqsUpTo(Items, MaxLen), conn \in BOOLEAN :
          create_list(key, obj, conn)
    \/ UNCHANGED <<qvars, cvars, wvars, evars, avars, rvars>> /\ \E key \in LKeys, conn \in BOOLEAN : drain_list(key, conn)
    \/ UNCHANGED <<qvars, cvars, wvars, evars, avars, rvars>> /\ \E key \in LKeys, item \in Items : lpush_item(key, item)

SpecList == InitList /\ [][NextList]_vars

InitListConc == QInit /\ LInit /\ CInit /\ WInit /\ EInit /\ AInit /\ RInit

NextListConc ==
    \/ UNCHANGED <<qvars, origin, last, wvars, evars, avars, rvars>>
          /\ \E c \in Creators, key \in LKeys, obj \in SeqsUpTo(TagItems, MaxLen) :
                conc_create_list(c, key, obj)
    \/ UNCHANGED <<qvars, origin, last, wvars, evars, avars, rvars>> /\ \E c \in Creators : server_exec(c)
    \/ UNCHANGED <<qvars, origin, last, wvars, evars, avars, rvars>> /\ \E c \in Creators : conc_create_return(c)
    \/ UNCHANGED <<qvars, origin, last, wvars, evars, avars, rvars>> /\ \E key \in LKeys : conc_lrange(key)

SpecListConc == InitListConc /\ [][NextListConc]_vars

\* one chat/user pair talks to the bot
WInitOne ==
    /\ conv = [p \in Pairs |-> NoConv]
    /\ wstr = [k \in WKeys |-> Nil]
    /\ wlist = [k \in WKeys |-> <<>>]
    /\ stickers = [f \in Files |-> NoRow]
    /\ tags = <<>>
    /\ wlast = NoMsg
    /\ wacc = [p \in Pairs |-> NoAcc]
    /\ wfail = [p \in Pairs |-> NoFail]
    /\ \E p \in Pairs : wpairs = {p}

InitWizard == QInit /\ LInit /\ CInit /\ WInitOne /\ EInit /\ AInit /\ RInit

NextWizard ==
    \/ UNCHANGED <<qvars, lvars, cvars, evars, avars, rvars>>
          /\ \E p \in Pairs, fail \in Failures : HandleMessage(TextMsg(p, "/upload", "-"), fail)
    \/ UNCHANGED <<qvars, lvars, cvars, evars, avars, rvars>>
          /\ \E p \in Pairs : \E f \in FilesOf(p), fail \in Failures : HandleMessage(StickerMsg(p, f), fail)
    \/ UNCHANGED <<qvars, lvars, cvars, evars, avars, rvars>>
          /\ \E p \in Pairs : \E w \in WordsOf(p), fail \in Failures : HandleMessage(TextMsg(p, w, "-"), fail)
    \/ UNCHANGED <<qvars, lvars, cvars, evars, avars, rvars>>
          /\ \E p \in Pairs, fail \in Failures : HandleMessage(TextMsg(p, "/done", "-"), fail)
    \/ UNCHANGED <<qvars, lvars, cvars, evars, avars, rvars>>
          /\ \E p \in Pairs, fail \in Failures : HandleMessage(TextMsg(p, "/list", "-"), fail)
    \/ UNCHANGED <<qvars, lvars, cvars, evars, avars, rvars>>
          /\ \E p \in Pairs : \E a \in FilesOf(p) \cup {"-"}, fail \in Failures :
                HandleMessage(TextMsg(p, "/delete", a), fail)

SpecWizard == InitWizard /\ [][NextWizard]_vars

\* what may fail in the run of one user: no cache or store operation, but
\* any send to Telegram
RunFailures == {"none", "tg"}

\* one user runs the wizard once: /upload, a sticker, a name, tags, /done,
\* and then whatever is none of /upload, /list and /delete, which replace or
\* drop the conversation
RunUpload ==
    /\ wstep = "upload"
    /\ \E p \in Pairs, fail \in RunFailures :
          HandleMessage(TextMsg(p, "/upload", "-"), fail)
    /\ wstep' = "sticker"
    /\ wreplied' = (wlast'.res = "Ok")

RunSticker ==
    /\ wstep = "sticker"
    /\ \E p \in Pairs, f \in Files, fail \in RunFailures :
          HandleMessage(StickerMsg(p, f), fail)
    /\ wstep' = "name"
    /\ UNCHANGED wreplied

RunName ==
    /\ wstep = "name"
    /\ \E p \in Pairs, w \in Words, fail \in RunFailures :
          HandleMessage(TextMsg(p, w, "-"), fail)
    /\ wstep' = "tags"
    /\ UNCHANGED wreplied

RunTag ==
    /\ wstep = "tags"
    /\ \E p \in Pairs, w \in Words, fail \in RunFailures :
          HandleMessage(TextMsg(p, w, "-"), fail)
    /\ wstep' = "tags"
    /\ UNCHANGED wreplied

RunDone ==
    /\ wstep = "tags"
    /\ \E p \in Pairs, fail \in RunFailures :
          HandleMessage(TextMsg(p, "/done", "-"), fail)
    /\ wstep' = "after"
    /\ UNCHANGED wreplied

RunAfter ==
    /\ wstep = "after"
    /\ \E p \in Pairs, fail \in RunFailures :
          \/ \E w \in Words \cup {"/done"} : HandleMessage(TextMsg(p, w, "-"), fail)
          \/ \E f \in Files : HandleMessage(StickerMsg(p, f), fail)
    /\ wstep' = "after"
    /\ UNCHANGED wreplied

InitWizardRun == QInit /\ LInit /\ CInit /\ WInitOne /\ EInit /\ AInit /\ RInit

NextWizardRun ==
    \/ UNCHANGED <<qvars, lvars, cvars, evars, avars>> /\ RunUpload
    \/ UNCHANGED <<qvars, lvars, cvars, evars, avars>> /\ RunSticker
    \/ UNCHANGED <<qvars, lvars, cvars, evars, avars>> /\ RunName
    \/ UNCHANGED <<qvars, lvars, cvars, evars, avars>> /\ RunTag
    \/ UNCHANGED <<qvars, lvars, cvars, evars, avars>> /\ RunDone
    \/ UNCHANGED <<qvars, lvars, cvars, evars, avars>> /\ RunAfter

\* the user sends each message of the run and the bot handles it; the tags
\* are finitely many, so /done comes
SpecWizardRun ==
    /\ InitWizardRun
    /\ [][NextWizardRun]_vars
    /\ WF_vars(UNCHANGED <<qvars, lvars, cvars, evars, avars>> /\ RunUpload)
    /\ WF_vars(UNCHANGED <<qvars, lvars, cvars, evars, avars>> /\ RunSticker)
    /\ WF_vars(UNCHANGED <<qvars, lvars, cvars, evars, avars>> /\ RunName)
    /\ WF_vars(UNCHANGED <<qvars, lvars, cvars, evars, avars>> /\ RunDone)

\* both chat/user pairs talk to the bot, their messages interleaved
WInitTwo ==
    /\ conv = [p \in Pairs |-> NoConv]
    /\ wstr = [k \in WKeys |-> Nil]
    /\ wlist = [k \in WKeys |-> <<>>]
    /\ stickers = [f \in Files |-> NoRow]
    /\ tags = <<>>
    /\ wlast = NoMsg
    /\ wacc = [p \in Pairs |-> NoAcc]
    /\ wfail = [p \in Pairs |-> NoFail]
    /\ wpairs = Pairs

InitWizardTwo == QInit /\ LInit /\ CInit /\ WInitTwo /\ EInit /\ AInit /\ RInit

MaxTagsTwo == 1             \* staged tags per list when two pairs run
\* what can fail while the two runs interleave
FailuresTwo == {"none", "sticker_insert", "tags_insert"}

\* the messages of the wizard itself, from either pair, in any order
NextWizardTwo ==
    \/ UNCHANGED <<qvars, lvars, cvars, evars, avars, rvars>>
          /\ \E p \in Pairs : HandleMessage(TextMsg(p, "/upload", "-"), "none")
    \/ UNCHANGED <<qvars, lvars, cvars, evars, avars, rvars>>
          /\ \E p \in Pairs : \E f \in FilesOf(p) : HandleMessage(StickerMsg(p, f), "none")
    \/ UNCHANGED <<qvars, lvars, cvars, evars, avars, rvars>>
          /\ \E p \in Pairs : \E w \in WordsOf(p) : HandleMessage(TextMsg(p, w, "-"), "none")
          /\ \A k \in WKeys : Len(wlist'[k]) <= MaxTagsTwo
    \/ UNCHANGED <<qvars, lvars, cvars, evars, avars, rvars>>
          /\ \E p \in Pairs, fail \in FailuresTwo : HandleMessage(TextMsg(p, "/done", "-"), fail)

SpecWizardTwo == InitWizardTwo /\ [][NextWizardTwo]_vars

\* both pairs have started the wizard; tasks drive their instances
EInitStarted ==
    /\ einst = [p \in Pairs |->
                  LET tpl == upload_sticker_conversation(TextMsg(p, UPLOAD_CMD, "-"))
                  IN [tpl |-> tpl, cur |-> get_start(tpl)]]
    /\ tpc = [t \in Tasks |-> "idle"]
    /\ tcall = [t \in Tasks |-> NoTCall]
    /\ elast = NoStep
    /\ eloop = [p \in Pairs |-> 0]

InitEngine == QInit /\ LInit /\ CInit /\ WInit /\ EInitStarted /\ AInit /\ RInit

NextEngine ==
    \/ UNCHANGED <<qvars, lvars, cvars, wvars, avars, rvars>>
          /\ \E t \in Tasks, p \in Pairs, label \in ELabels : TransitionResolve(t, p, label)
    \/ UNCHANGED <<qvars, lvars, cvars, wvars, avars, rvars>>
          /\ \E t \in Tasks : TransitionUpdate(t)

SpecEngine == InitEngine /\ [][NextEngine]_vars

InitAuthor == QInit /\ LInit /\ CInit /\ WInit /\ EInit /\ AInit /\ RInit

NextAuthor ==
    \/ UNCHANGED <<qvars, lvars, cvars, wvars, evars, rvars>>
          /\ \E id \in TplIds, content \in Contents : Construct(id, content)
    \/ UNCHANGED <<qvars, lvars, cvars, wvars, evars, rvars>>
          /\ \E id \in TplIds, content \in Contents : AddState(id, content)
    \/ UNCHANGED <<qvars, lvars, cvars, wvars, evars, rvars>>
          /\ \E id \in TplIds, from \in 1..MaxStates, to \in 1..MaxStates, label \in TLabels :
                AddTransition(id, from, to, label)
    \/ UNCHANGED <<qvars, lvars, cvars, wvars, evars, rvars>>
          /\ \E id \in TplIds : GetStart(id)

SpecAuthor == InitAuthor /\ [][NextAuthor]_vars

-----------------------------------------------------------------------------
(* History of the running query.                                            *)

CallsOf(cb) == {i \in 1..Len(qcalls) : qcalls[i].cb = cb}
RedisOut == qcalls[1].out
SqlOut == qcalls[2].out

\* C1: query hit path: when the cache read (redis_query) returned a value,
\* query returns exactly that value and neither sql_query nor miss_query
\* was invoked.
C1_HitReturnsCached ==
    (qpc = "done" /\ Len(qcalls) >= 1 /\ RedisOut.tag = "Ok"
        /\ RedisOut.opt.tag = "Some")
    => /\ qret = Ok(Some(RedisOut.opt.val))
       /\ CallsOf("sql_query") = {}
       /\ CallsOf("miss_query") = {}
       /\ Len(qcalls) = 1

C1_Witness ==
    /\ qpc = "done"
    /\ Len(qcalls) = 1
    /\ RedisOut.tag = "Ok"
    /\ RedisOut.opt.tag = "Some"
    /\ qdb[qkey].tag = "Some"
    /\ qret.tag = "Ok"

\* C2: query miss-with-absence path: when the cache read returned nothing and
\* the store load returned nothing, query returns Ok(None), miss_query was
\* never invoked and the cache is as it was when query was called.
C2_AbsenceNotCached ==
    (qpc = "done" /\ Len(qcalls) >= 2
        /\ RedisOut.tag = "Ok" /\ RedisOut.opt.tag = "None"
        /\ SqlOut.tag = "Ok" /\ SqlOut.opt.tag = "None")
    => /\ qret = Ok(None)
       /\ CallsOf("miss_query") = {}
       /\ qcache = qcache0

C2_Witness ==
    /\ qpc = "done"
    /\ Len(qcalls) = 2
    /\ RedisOut.tag = "Ok" /\ RedisOut.opt.tag = "None"
    /\ SqlOut.tag = "Ok" /\ SqlOut.opt.tag = "None"
    /\ qret = Ok(None)
    /\ \E k \in QKeys : qcache[k].tag = "Some"

\* C3: query miss-with-value path: when the cache read returned nothing and
\* the store load returned a value v, miss_query is invoked exactly once, with
\* the key of the query and with v, and query returns miss_query's result
\* (its value when it succeeded, its error when it failed).
C3_MissPopulatesOnce ==
    (qpc = "done" /\ Len(qcalls) >= 2
        /\ RedisOut.tag = "Ok" /\ RedisOut.opt.tag = "None"
        /\ SqlOut.tag = "Ok" /\ SqlOut.opt.tag = "Some")
    => /\ Cardinality(CallsOf("miss_query")) = 1
       /\ Len(qcalls) = 3
       /\ qcalls[3].cb = "miss_query"
       /\ qcalls[3].key = qkey
       /\ qcalls[3].arg = SqlOut.opt.val
       /\ qret = IF qcalls[3].out.tag = "Err"
                   THEN qcalls[3].out
                   ELSE Ok(Some(qcalls[3].out.opt.val))

C3_Witness ==
    /\ qpc = "done"
    /\ Len(qcalls) = 3
    /\ qcalls[3].cb = "miss_query"
    /\ qcalls[3].out.tag = "Ok"
    /\ qret = Ok(Some(CacheRepr(SqlOut.opt.val)))
    /\ qret # Ok(Some(SqlOut.opt.val))

\* C16: query propagates strategy errors and stops: a failed cache read is
\* returned and neither load nor populate is called; a failed load is
\* returned and populate is not called; a failed populate is returned in
\* place of the loaded value; a run that returned Ok had no failed strategy.
C16_ErrorsPropagate ==
    qpc = "done"
    => /\ \A i \in DOMAIN qcalls :
             qcalls[i].out.tag = "Err" => (qret = qcalls[i].out /\ Len(qcalls) = i)
       /\ (RedisOut.tag = "Err") => (CallsOf("sql_query") = {} /\ CallsOf("miss_query") = {})
       /\ (Len(qcalls) >= 2 /\ SqlOut.tag = "Err") => CallsOf("miss_query") = {}
       /\ qret.tag = "Ok" => \A i \in DOMAIN qcalls : qcalls[i].out.tag = "Ok"
       /\ qret.tag \in {"Ok", "Err"}

C16_Witness ==
    /\ qpc = "done"
    /\ Len(qcalls) = 2
    /\ RedisOut = Ok(None)
    /\ SqlOut = Err("store")
    /\ qdb[qkey].tag = "Some"
    /\ qret = Err("store")

\* a run of query stopped after load returned a value and before populate
CrashedRun == qcrash # NoCrash

\* C17: the store is the system of record: no step of query writes the
\* store; a run that stops between load and populate leaves the cache as it
\* was when query was called; and the next query for that key that runs
\* without failure, the store still holding a value, goes the miss path and
\* returns the representation of the store's value.
C17_StoreIsRecord ==
    /\ [][(qpc # "idle" \/ qpc' # "idle") => qdb' = qdb]_vars
    /\ [](CrashedRun => qcrash.cache = qcrash.cache0)
    /\ []((CrashedRun /\ qpc = "done" /\ qkey = qcrash.key
             /\ qdb[qkey].tag = "Some"
             /\ \A i \in DOMAIN qcalls : qcalls[i].out.tag = "Ok")
           => /\ Len(qcalls) = 3
              /\ qcalls[3].cb = "miss_query"
              /\ qret = Ok(Some(CacheRepr(qdb[qkey].val))))

C17_Witness ==
    /\ CrashedRun
    /\ qpc = "done"
    /\ qkey = qcrash.key
    /\ qcrash.cache = qcrash.cache0
    /\ Len(qcalls) = 3
    /\ qret = Ok(Some(CacheRepr(qdb[qkey].val)))

-----------------------------------------------------------------------------
(* History of the last list call.                                           *)

Reverse(q) == [i \in 1..Len(q) |-> q[Len(q) + 1 - i]]
Encoded(items) == [i \in DOMAIN items |-> RedisStr_new(items[i]).bytes]
Count(q, x) == Cardinality({i \in DOMAIN q : q[i] = x})
AllEncodable(items) == \A i \in DOMAIN items : RedisStr_new(items[i]).ok
AllDecodable(raw) == \A i \in DOMAIN raw : from_slice(raw[i]).ok

\* C4: round trip order: create_list(key, items) followed, with no other
\* writer on key, by drain_list(key) returns the items in the order they were
\* given: the first item given to create_list is the first item returned.
C4_RoundTripOrder ==
    (last.op = "drain_list" /\ last.res = "Ok"
        /\ origin[last.key].by = "create_list")
    => last.out = origin[last.key].items

\* C5: drain_list empties the list: after a successful drain_list(key) the
\* list at key is empty.
C5_DrainEmptiesList ==
    (last.op = "drain_list" /\ last.res = "Ok") => lists[last.key] = <<>>

\* C6: create_list is a full replace: after a successful create_list(key,
\* items) the list at key holds exactly the encodings of the given items, each
\* as often as it was given, and so none of the elements stored before.
C6_CreateListReplaces ==
    (last.op = "create_list" /\ last.res = "Ok")
    => /\ Len(lists[last.key]) = Len(last.items)
       /\ \A i \in DOMAIN last.items :
             Count(lists[last.key], Encoded(last.items)[i])
                = Count(Encoded(last.items), Encoded(last.items)[i])

C6_Witness ==
    /\ last.op = "create_list"
    /\ last.res = "Ok"
    /\ last.items # <<>>
    /\ \E i \in DOMAIN last.before :
          /\ Count(Encoded(last.items), last.before[i]) = 0
          /\ Count(lists[last.key], last.before[i]) = 0

\* C8: try_pipe dispatches nothing when the builder fails: when an item given
\* to create_list fails to encode, whichever it is, create_list returns the
\* error, no command is sent to the cache, and the list stored at key is the
\* list stored there before.
C8_FailedBuildSendsNothing ==
    (last.op = "create_list" /\ ~AllEncodable(last.items))
    => /\ last.res = "ErrEncode"
       /\ last.sent = <<>>
       /\ lists[last.key] = last.before

C8_Witness ==
    /\ last.op = "create_list"
    /\ Len(last.items) >= 2
    /\ last.items[Len(last.items)] = UnserItem
    /\ \A i \in 1..(Len(last.items) - 1) : RedisStr_new(last.items[i]).ok
    /\ last.before # <<>>
    /\ last.res = "ErrEncode"

\* C9: drain_list is all-or-nothing on decode: when an element of the list at
\* key fails to decode, drain_list returns an error and none of the elements
\* that did decode.
C9_DrainAllOrNothing ==
    (last.op = "drain_list" /\ ~AllDecodable(last.before))
    => /\ last.res \in {"ErrDecode", "ErrRedis"}
       /\ last.out = <<>>

C9_Witness ==
    /\ last.op = "drain_list"
    /\ last.res = "ErrDecode"
    /\ Len(last.before) >= 2
    /\ from_slice(last.before[1]).ok
    /\ ~from_slice(last.before[2]).ok

\* C7: create_list is atomic with respect to other cache clients: whenever
\* another client reads the list at key, under any interleaving with the
\* create_list calls on that key, it gets the complete list of the last
\* create_list the server has run (the prior list while a call is pending,
\* the new list once it has run), never the empty list between the delete
\* and the pushes and never a partially pushed list.
C7_CreateListAtomic ==
    seen.read => seen.list = Reverse(Encoded(seen.items))

C7_Witness ==
    /\ seen.read
    /\ seen.during = Creators
    /\ Len(seen.list) = MaxLen
    /\ \E c \in Creators : cpc[c] = "sent" /\ cpipe[c].cmds # <<>>
    /\ \E c \in Creators : cpc[c] = "sent" /\ cpipe[c].cmds = <<>>

\* C10: accepted transition: when a handler calls transition(x) on an
\* instance whose current state is A, and the template has an edge (A, x, B),
\* the call succeeds, the instance's current-state pointer is B, the call
\* returns B's prompt text, and get_current_text then returns B's prompt text.
C10_AcceptedTransition ==
    \A i \in DOMAIN wlast.calls :
       LET c == wlast.calls[i]
           inst == conv[wlast.pair]
       IN \A t \in inst.tpl.transitions :
             (t.start_state = c.from /\ t.triggerphrase = c.label)
             => /\ c.ok
                /\ c.to = t.end_state
                /\ inst.cur = t.end_state
                /\ c.text = inst.tpl.states[t.end_state].content
                /\ get_current_text(inst) = inst.tpl.states[t.end_state].content

C10_Witness ==
    /\ Len(wlast.calls) = 1
    /\ wlast.calls[1].ok
    /\ wlast.calls[1].label = TRANSITION_NAME
    /\ wlast.calls[1].from # wlast.calls[1].to
    /\ wlast.calls[1].text = STATE_NAME
    /\ get_current_text(conv[wlast.pair]) = STATE_NAME

-----------------------------------------------------------------------------
(* The engine under concurrent tasks.                                       *)

EdgesFrom(tpl, state, label) ==
    {t \in tpl.transitions : t.start_state = state /\ t.triggerphrase = label}

\* C11: rejected transition: whenever a transition call is made with a label
\* for which no edge leaves the instance's current state (labels that exist
\* only on edges leaving other states included), the call fails with the
\* "no such transition" error and the instance's pointer is as it was.
C11_RejectedTransition ==
    (elast.kind \in {"resolve", "reject"}
        /\ EdgesFrom(einst[elast.pair].tpl, elast.from, elast.label) = {})
    => /\ elast.kind = "reject"
       /\ ~elast.ok
       /\ elast.text = "no such transition"
       /\ elast.after = elast.before
       /\ einst[elast.pair].cur = elast.from

C11_Witness ==
    /\ elast.kind = "reject"
    /\ elast.text = "no such transition"
    /\ einst[elast.pair].cur = elast.from
    /\ elast.from # get_start(einst[elast.pair].tpl)
    /\ \E t \in einst[elast.pair].tpl.transitions :
          t.triggerphrase = elast.label /\ t.start_state # elast.from

\* the last step applied a transition along a self-loop edge (S, label, S)
\* of the template while the instance was at S
SelfLoopApplied ==
    /\ elast.kind = "update"
    /\ elast.before = elast.from
    /\ \E t \in EdgesFrom(einst[elast.pair].tpl, elast.from, elast.label) :
          t.end_state = elast.from

\* C12: self-loop: each application of transition(label) along an edge
\* (S, label, S) to an instance at S leaves the instance at S, and the call
\* and getCurrentText give S's prompt, however many applications came before.
C12_SelfLoop ==
    /\ SelfLoopApplied
        => /\ elast.ok
           /\ einst[elast.pair].cur = elast.from
           /\ elast.text = einst[elast.pair].tpl.states[elast.from].content
           /\ get_current_text(einst[elast.pair])
                 = einst[elast.pair].tpl.states[elast.from].content
    /\ \A p \in Pairs :
          eloop[p] > 0 => get_current_text(einst[p]) = STATE_TAGS

C12_Witness ==
    /\ SelfLoopApplied
    /\ elast.label = TRANSITION_MORETAG
    /\ eloop[elast.pair] >= 2
    /\ get_current_text(einst[elast.pair]) = STATE_TAGS

\* C13: instance independence: a step of a transition call on the instance
\* of one chat/user pair, accepted or rejected, never changes the instance
\* of another pair, however the calls of the tasks interleave.
C13_InstanceIndependence ==
    [][\A q \in Pairs : q # elast'.pair => einst'[q] = einst[q]]_vars

C13_Witness ==
    /\ elast.kind = "update"
    /\ elast.ok
    /\ elast.before # elast.after
    /\ \E q \in Pairs :
          /\ q # elast.pair
          /\ q.chat = elast.pair.chat
          /\ einst[q].cur # einst[elast.pair].cur
          /\ \E u \in Tasks : tpc[u] = "resolved" /\ tcall[u].pair = q

\* the last step applied the pointer update of a call while another call on
\* the same instance had its update applied since this call found its edge
RacedUpdate == elast.kind = "update" /\ elast.rival # NoRival

\* C15: racing transitions on one instance are last-writer-wins: the call
\* whose pointer update is applied last succeeds although the pointer moved
\* since it found its edge, and the pointer is then the destination of the
\* edge that call resolved, which is one of the two resolved edges.
C15_LastWriterWins ==
    RacedUpdate
    => /\ elast.ok
       /\ einst[elast.pair].cur = elast.to
       /\ einst[elast.pair].cur \in {elast.to, elast.rival.to}
       /\ \E t \in EdgesFrom(einst[elast.pair].tpl, elast.from, elast.label) :
             t.end_state = einst[elast.pair].cur

C15_Witness ==
    /\ RacedUpdate
    /\ elast.ok
    /\ elast.rival.from = elast.from
    /\ elast.rival.to # elast.to
    /\ elast.before = elast.rival.to
    /\ elast.before # elast.from
    /\ einst[elast.pair].cur = elast.to

-----------------------------------------------------------------------------
(* Template authoring.                                                      *)

StartStates(c) == {i \in DOMAIN c.states : c.states[i].start}

\* C14: unique start state: after any sequence of construct, addState and
\* addTransition calls every constructed template has exactly one state
\* with the start marker, the start-state lookup returns that state, and
\* the state addState made is never start-marked.
C14_UniqueStart ==
    /\ \A id \in TplIds :
          etpl[id] # NoTpl
          => /\ Cardinality(StartStates(etpl[id])) = 1
             /\ get_start(etpl[id]) \in StartStates(etpl[id])
    /\ (alast.op = "get_start" \/ (alast.op = "construct" /\ alast.ok))
          => /\ alast.state \in StartStates(etpl[alast.id])
             /\ StartStates(etpl[alast.id]) = {alast.state}
    /\ alast.op = "add_state"
          => /\ alast.state = Len(etpl[alast.id].states)
             /\ alast.state \notin StartStates(etpl[alast.id])

C14_Witness ==
    /\ alast.op = "get_start"
    /\ alast.ok
    /\ Len(etpl[alast.id].states) >= 2
    /\ etpl[alast.id].transitions # {}
    /\ StartStates(etpl[alast.id]) = {alast.state}
    /\ \A id \in TplIds : etpl[id] # NoTpl

-----------------------------------------------------------------------------
(* The wizard's staging and commit.                                         *)

KeyOf(p, key) == scope_key_by_chatuser(key, TextMsg(p, "-", "-"))
StagedId(p) == wstr[KeyOf(p, KEY_TYPE_STICKER_ID)]
StagedName(p) == wstr[KeyOf(p, KEY_TYPE_STICKER_NAME)]
StagedTags(p) == collect(LRANGE(wlist, KeyOf(p, KEY_TYPE_TAG)))
At(p, state) == conv[p] # NoConv /\ get_current_text(conv[p]) = state
RowsOf(id) == {j \in DOMAIN tags : tags[j].sticker_id = id}

\* the store holds the sticker row and the tag rows of the pair's run
Committed(p) ==
    /\ StagedId(p) \in Files
    /\ stickers[StagedId(p)] = [owner_id |-> p.user, chosen_name |-> StagedName(p)]
    /\ StagedTags(p).ok
    /\ \A i \in DOMAIN StagedTags(p).out :
          \E j \in DOMAIN tags : tags[j] = TagRow(StagedTags(p).out[i])
    /\ Cardinality(RowsOf(StagedId(p))) = Len(StagedTags(p).out)

\* C18: commit before completion: an instance is at STATE_DONE only with
\* the sticker row and every staged tag row in the store, the sticker row
\* first (no tag row is without its sticker row); a /done whose drain or
\* inserts failed returns the error with the pointer still at STATE_TAGS.
C18_CommitBeforeDone ==
    /\ \A p \in Pairs : At(p, STATE_DONE) => Committed(p)
    /\ \A j \in DOMAIN tags : stickers[tags[j].sticker_id] # NoRow
    /\ (wlast.text = "/done" /\ wlast.at = STATE_TAGS
          /\ wlast.res \in {"Err: redis", "Err: decode", "Err: store"})
        => /\ At(wlast.pair, STATE_TAGS)
           /\ wlast.calls = <<>>

C18_Witness ==
    /\ wlast.text = "/done"
    /\ wlast.at = STATE_TAGS
    /\ wlast.res = "Ok"
    /\ At(wlast.pair, STATE_DONE)
    /\ Committed(wlast.pair)
    /\ Len(tags) = 2

\* what a pair sends: its stickers and words, and the command it may name with
OwnFile(u, f) == \E p \in Pairs : p.user = u /\ f \in FilesOf(p)
OwnText(u, w) == \E p \in Pairs : p.user = u /\ w \in WordsOf(p) \cup {"/done"}

\* C19: wizard staging is scoped per chat/user: the keys of two pairs are
\* disjoint, what is staged under a pair's keys is what that pair sent, and
\* every sticker row and tag row committed at /done holds the sticker id,
\* name and tags of its owner alone, however the pairs' messages interleave.
C19_StagingScoped ==
    /\ \A p, q \in Pairs : \A k1, k2 \in {KEY_TYPE_TAG, KEY_TYPE_STICKER_ID, KEY_TYPE_STICKER_NAME} :
          (KeyOf(p, k1) = KeyOf(q, k2)) => (p = q /\ k1 = k2)
    /\ \A p \in Pairs :
          /\ StagedId(p) # Nil => OwnFile(p.user, StagedId(p))
          /\ StagedName(p) # Nil => OwnText(p.user, StagedName(p))
          /\ StagedTags(p).ok
          /\ \A i \in DOMAIN StagedTags(p).out :
                LET row == TagRow(StagedTags(p).out[i])
                IN /\ row.owner_id = p.user
                   /\ OwnFile(p.user, row.sticker_id)
                   /\ OwnText(p.user, row.tag)
    /\ \A f \in Files :
          stickers[f] # NoRow
          => /\ OwnFile(stickers[f].owner_id, f)
             /\ OwnText(stickers[f].owner_id, stickers[f].chosen_name)
    /\ \A j \in DOMAIN tags :
          /\ OwnFile(tags[j].owner_id, tags[j].sticker_id)
          /\ OwnText(tags[j].owner_id, tags[j].tag)
          /\ stickers[tags[j].sticker_id].owner_id = tags[j].owner_id

C19_Witness ==
    /\ wlast.text = "/done"
    /\ wlast.at = STATE_TAGS
    /\ wlast.res = "Ok"
    /\ Committed(wlast.pair)
    /\ RowsOf(StagedId(wlast.pair)) # {}
    /\ \E q \in Pairs :
          /\ q # wlast.pair
          /\ At(q, STATE_TAGS)
          /\ StagedId(q) # Nil
          /\ StagedName(q) # Nil
          /\ Len(StagedTags(q).out) >= 1

\* the tag rows a commit of the pair's accepted tag messages makes
AcceptedRows(p) ==
    [i \in DOMAIN wacc[p].tags |->
        [sticker_id |-> StagedId(p), owner_id |-> p.user, tag |-> wacc[p].tags[i]]]
StagedRows(p) == [i \in DOMAIN StagedTags(p).out |-> TagRow(StagedTags(p).out[i])]
SameBag(q1, q2) ==
    /\ Len(q1) = Len(q2)
    /\ \A i \in DOMAIN q1 : Count(q1, q1[i]) = Count(q2, q1[i])
CommittedRows(p) == SelectSeq(tags, LAMBDA r : r.sticker_id = StagedId(p))
\* the last message was a /done that committed
DoneCommitted ==
    /\ wlast.text = "/done"
    /\ wlast.at = STATE_TAGS
    /\ wlast.res \in {"Ok", "Err: tg"}

\* C20: no stale tags across runs: the tags a pair has staged are the tag
\* messages accepted in STATE_TAGS since its most recent sticker upload, and
\* the tag rows committed at /done are exactly those, as a multiset; what an
\* earlier run staged, committed or abandoned, is not among them.
C20_NoStaleTags ==
    /\ \A p \in Pairs :
          StagedTags(p).ok /\ SameBag(StagedRows(p), AcceptedRows(p))
    /\ DoneCommitted => SameBag(CommittedRows(wlast.pair), AcceptedRows(wlast.pair))

C20_Witness ==
    /\ DoneCommitted
    /\ wacc[wlast.pair].dropped >= 1
    /\ Len(wacc[wlast.pair].tags) >= 1
    /\ wacc[wlast.pair].dropped # Len(wacc[wlast.pair].tags)
    /\ SameBag(CommittedRows(wlast.pair), AcceptedRows(wlast.pair))

-----------------------------------------------------------------------------
(* The wizard's handlers and the template.                                  *)

\* C21: handlers only fire existing edges: every label a handler passes to
\* transition is the label of an edge leaving the state the instance is at
\* in the template of upload_sticker_conversation, so no message ends with
\* "no such transition", and a message makes at most one transition.
C21_HandlersFireEdges ==
    /\ Len(wlast.calls) <= 1
    /\ wlast.res # "Err: no such transition"
    /\ \A i \in DOMAIN wlast.calls :
          LET c == wlast.calls[i]
              tpl == upload_sticker_conversation(TextMsg(wlast.pair, UPLOAD_CMD, "-"))
          IN /\ c.ok
             /\ EdgesFrom(tpl, c.from, c.label) # {}
             /\ tpl.states[c.from].content \in {STATE_START, STATE_UPLOAD, STATE_NAME, STATE_TAGS}
             /\ conv[wlast.pair].tpl = tpl

C21_Witness ==
    /\ Len(wlast.calls) = 1
    /\ wlast.calls[1].ok
    /\ wlast.at = STATE_NAME
    /\ wlast.calls[1].label = TRANSITION_TAG
    /\ At(wlast.pair, STATE_TAGS)

\* the states reached from the states S along the edges E
RECURSIVE ReachFrom(_, _)
ReachFrom(E, S) ==
    LET N == S \cup {t.end_state : t \in {e \in E : e.start_state \in S}}
    IN IF N = S THEN S ELSE ReachFrom(E, N)

SelfLoops(tpl) == {t \in tpl.transitions : t.start_state = t.end_state}
Terminals(tpl) ==
    {i \in DOMAIN tpl.states : \A t \in tpl.transitions : t.start_state # i}
Deterministic(tpl) ==
    \A t1, t2 \in tpl.transitions :
       (t1.start_state = t2.start_state /\ t1.triggerphrase = t2.triggerphrase)
       => t1 = t2
\* no state leads back to itself along edges that are no self-loop
AcyclicButLoops(tpl) ==
    LET E == tpl.transitions \ SelfLoops(tpl)
    IN \A i \in DOMAIN tpl.states :
          i \notin ReachFrom(E, {t.end_state : t \in {e \in E : e.start_state = i}})

WellFormed(tpl) ==
    /\ Deterministic(tpl)
    /\ \A t \in tpl.transitions :
          t.start_state \in DOMAIN tpl.states /\ t.end_state \in DOMAIN tpl.states
    /\ ReachFrom(tpl.transitions, {get_start(tpl)}) = DOMAIN tpl.states
    /\ Cardinality(Terminals(tpl)) = 1
    /\ \A i \in Terminals(tpl) : tpl.states[i].content = STATE_DONE
    /\ Cardinality(SelfLoops(tpl)) = 1
    /\ \A t \in SelfLoops(tpl) :
          /\ tpl.states[t.start_state].content = STATE_TAGS
          /\ t.triggerphrase = TRANSITION_MORETAG
    /\ AcyclicButLoops(tpl)

\* C22: the sticker-upload template is a well-formed deterministic graph:
\* no two transitions share source state and label, every state is reached
\* from the start state, STATE_DONE is the only state with no outgoing
\* edge, and the only cycle is the self-loop on STATE_TAGS; so is the
\* template of every instance the wizard made.
C22_TemplateWellFormed ==
    /\ \A p \in Pairs : WellFormed(upload_sticker_conversation(TextMsg(p, UPLOAD_CMD, "-")))
    /\ \A p \in Pairs : conv[p] # NoConv => WellFormed(conv[p].tpl)

C22_Witness ==
    \E p \in Pairs :
       /\ At(p, STATE_DONE)
       /\ conv[p].cur \in Terminals(conv[p].tpl)
       /\ Cardinality(conv[p].tpl.transitions) = 5
       /\ Len(conv[p].tpl.states) = 5
       /\ WellFormed(conv[p].tpl)

\* the instance upload makes for the pair, moved along the start state's edge
FreshStarted(p) ==
    LET tpl == upload_sticker_conversation(TextMsg(p, UPLOAD_CMD, "-"))
    IN {[tpl |-> tpl, cur |-> t.end_state] :
          t \in EdgesFrom(tpl, get_start(tpl), TRANSITION_UPLOAD)}

\* C23: an /upload message restarts the wizard and takes the start step in
\* the same message: whatever the pair's instance was before, after an
\* /upload handled without error the pair has a new instance of the
\* template, at STATE_UPLOAD, by one transition out of the start state.
C23_UploadRestarts ==
    (wlast.text = "/upload" /\ wlast.res = "Ok")
    => /\ conv[wlast.pair] \in FreshStarted(wlast.pair)
       /\ At(wlast.pair, STATE_UPLOAD)
       /\ Len(wlast.calls) = 1
       /\ wlast.calls[1].from = get_start(conv[wlast.pair].tpl)
       /\ wlast.calls[1].label = TRANSITION_UPLOAD
       /\ wlast.calls[1].to = conv[wlast.pair].cur

C23_Witness ==
    /\ wlast.text = "/upload"
    /\ wlast.res = "Ok"
    /\ wlast.at = STATE_TAGS
    /\ At(wlast.pair, STATE_UPLOAD)
    /\ StagedId(wlast.pair) # Nil

\* the step handled a text that is no command while the pair was at state
TextAt(state) ==
    /\ wlast'.at = state
    /\ wlast'.text \in Words \cup {"/done"}

\* C24: invalid input in STATE_UPLOAD changes nothing: a message that is no
\* sticker, handled while the instance is at STATE_UPLOAD, gets the "Send a
\* sticker" error, makes no transition and leaves the pointer, the
\* sticker-id key, the tag list and every other cache key as they were.
C24_InvalidUploadInput ==
    [][TextAt(STATE_UPLOAD)
        => /\ wlast'.res = "Err: Send a sticker"
           /\ wlast'.calls = <<>>
           /\ conv' = conv
           /\ conv'[wlast'.pair] # NoConv
           /\ get_current_text(conv'[wlast'.pair]) = STATE_UPLOAD
           /\ wstr' = wstr
           /\ wlist' = wlist
           /\ stickers' = stickers
           /\ tags' = tags]_vars

C24_Witness ==
    /\ wlast.at = STATE_UPLOAD
    /\ wlast.text \in Words \cup {"/done"}
    /\ wlast.res = "Err: Send a sticker"
    /\ At(wlast.pair, STATE_UPLOAD)
    /\ StagedId(wlast.pair) # Nil
    /\ wlist[KeyOf(wlast.pair, KEY_TYPE_TAG)] # <<>>

PointerAt(p) == IF conv[p] = NoConv THEN "-" ELSE get_current_text(conv[p])

\* the moves of the pointer in one run of the wizard; /upload makes the
\* instance at STATE_START and conv_start moves it on
RunOrder ==
    {<<"-", STATE_START>>, <<STATE_START, STATE_UPLOAD>>,
     <<"-", STATE_UPLOAD>>, <<STATE_UPLOAD, STATE_NAME>>,
     <<STATE_NAME, STATE_TAGS>>, <<STATE_TAGS, STATE_DONE>>}

UploadReplyFailed == wstep # "upload" /\ ~wreplied

====
